---- MODULE Spec2Model ----
(***************************************************************************)
(* The approval workflow engine of the ticket backend:                     *)
(*   backend/app/services/approval_service.py      (ApprovalService)       *)
(*   backend/app/repositories/approval_repository.py (ApprovalRepository)  *)
(* The store (workflows, steps, tickets) is the only shared state.  Ids    *)
(* are positions in the tables.  The UPDATE statements the repository      *)
(* builds (_update_step, _cancel_pending_steps, _update_ticket_status) are *)
(* read as the row updates they spell, and every statement acts on the     *)
(* shared store directly.                                                  *)
(***************************************************************************)
EXTENDS Integers, Sequences, FiniteSets, TLC

VARIABLES workflows, steps, tickets, users, now, req

vars == <<workflows, steps, tickets, users, now, req>>

(* ------------------------------ bounds -------------------------------- *)
MaxWorkflows == 2
MaxSteps == 3
MaxTime == 2
ConcWorkflows == 2
ConcSteps == 3
SweepWorkflows == 1

(* ------------------------- program constants -------------------------- *)
None == 0
NoTime == -1
NoThreshold == -1
EscalatedTimeoutHours == 12

Users == {1, 2, 3}
Requester == 1
Initiators == {2}
Manager == 3
Tickets == {1}
Procs == {1, 2}
Costs == {0, 1}
Thresholds == {NoThreshold, 0, 1}
TimeoutChoices == {1}
TargetChoices == {None, Manager}

(* the clock counts hours *)

WorkflowType == {"sequential", "parallel", "conditional", "auto_approve"}
WorkflowStatus == {"active", "completed", "cancelled", "escalated"}
ApprovalAction == {"approve", "reject", "request_info", "delegate", "escalate"}
ApprovalStepStatus == {"pending", "approved", "rejected", "delegated", "escalated", "skipped"}
TicketStatus == {"draft", "submitted", "in_review", "pending_info", "approved", "rejected", "in_progress", "completed", "closed"}

(* explicit approver lists a caller may pass; <<>> = none given *)
ApproverLists == {<<>>, <<1>>, <<1, 2>>}

Db == [workflows |-> workflows, steps |-> steps, tickets |-> tickets]

StepIds(db) == DOMAIN db.steps
WorkflowIds(db) == DOMAIN db.workflows
StepsOf(db, wid) == {i \in StepIds(db) : db.steps[i].workflow_id = wid}

(* ----------------------------- repository ----------------------------- *)

_update_ticket_status(db, ticket_id, status) ==
    [db EXCEPT !.tickets[ticket_id].status = status]

update_ticket_status(db, ticket_id, new_status) ==
    [db EXCEPT !.tickets[ticket_id].status = new_status]

(* the completion rule with sequential workflows counted as parallel ones,  *)
(* for comparison                                                          *)
CheckCountingApprovedOnly(db, workflow_id, t) ==
    LET workflow == db.workflows[workflow_id]
        sids == StepsOf(db, workflow_id)
        completed == [db EXCEPT !.workflows[workflow_id].status = "completed",
                                !.workflows[workflow_id].completed_at = t]
    IN  IF \E i \in sids : db.steps[i].status = "rejected"
        THEN _update_ticket_status(completed, workflow.ticket_id, "rejected")
        ELSE IF workflow.workflow_type \in {"sequential", "parallel"}
        THEN IF Cardinality({i \in sids : db.steps[i].status = "approved"}) = Cardinality(sids)
             THEN _update_ticket_status(completed, workflow.ticket_id, "approved")
             ELSE db
        ELSE db

(* the rejection branch of the completion rule with the steps still pending *)
(* skipped, for comparison                                                 *)
CheckSkippingOnRejection(db, workflow_id, t) ==
    LET workflow == db.workflows[workflow_id]
        sids == StepsOf(db, workflow_id)
        completed == [db EXCEPT !.workflows[workflow_id].status = "completed",
                                !.workflows[workflow_id].completed_at = t]
        skipped == [completed EXCEPT !.steps = [i \in DOMAIN @ |->
                        IF i \in sids /\ @[i].status = "pending"
                        THEN [@[i] EXCEPT !.status = "skipped"] ELSE @[i]]]
    IN  IF \E i \in sids : db.steps[i].status = "rejected"
        THEN _update_ticket_status(skipped, workflow.ticket_id, "rejected")
        ELSE db

_check_and_update_workflow_status(db, workflow_id, t) ==
    LET workflow == db.workflows[workflow_id]
        sids == StepsOf(db, workflow_id)
        completed == [db EXCEPT !.workflows[workflow_id].status = "completed",
                                !.workflows[workflow_id].completed_at = t]
    IN  IF \E i \in sids : db.steps[i].status = "rejected"
        THEN _update_ticket_status(completed, workflow.ticket_id, "rejected")
        ELSE IF workflow.workflow_type = "sequential"
        THEN IF {i \in sids : db.steps[i].status = "pending"} = {}
             THEN _update_ticket_status(completed, workflow.ticket_id, "approved")
             ELSE db
        ELSE IF workflow.workflow_type = "parallel"
        THEN IF Cardinality({i \in sids : db.steps[i].status = "approved"}) = Cardinality(sids)
             THEN _update_ticket_status(completed, workflow.ticket_id, "approved")
             ELSE db
        ELSE db

NewStep(workflow_id, approver_id, step_order, due_date) ==
    [workflow_id |-> workflow_id, approver_id |-> approver_id, step_order |-> step_order,
     action |-> "none", status |-> "pending",
     delegated_to_id |-> None, escalated_to_id |-> None,
     due_date |-> due_date, completed_at |-> NoTime]

_create_approval_steps(db, workflow_id, approver_ids, t) ==
    [db EXCEPT !.steps = @ \o [i \in 1..Len(approver_ids) |->
        NewStep(workflow_id, approver_ids[i], i,
                t + db.workflows[workflow_id].escalation_timeout_hours)]]

create_workflow(db, ticket_id, workflow_type, approver_ids, initiated_by_id, timeout, t) ==
    LET workflow == [ticket_id |-> ticket_id, workflow_type |-> workflow_type,
                     status |-> "active",
                     escalation_timeout_hours |-> timeout,
                     initiated_by_id |-> initiated_by_id, completed_at |-> NoTime]
        db1 == [db EXCEPT !.workflows = Append(@, workflow)]
    IN  _create_approval_steps(db1, Len(db1.workflows), approver_ids, t)

(* a delegated step placed one position later, for comparison *)
DelegatedStepAtNextOrder(db, original_step, delegated_to_id) ==
    [db EXCEPT !.steps = Append(@,
        NewStep(original_step.workflow_id, delegated_to_id, original_step.step_order + 1,
                original_step.due_date))]

_create_delegated_step(db, original_step, delegated_to_id) ==
    [db EXCEPT !.steps = Append(@,
        NewStep(original_step.workflow_id, delegated_to_id, original_step.step_order,
                original_step.due_date))]

(* an escalated step due after the workflow's own timeout, for comparison *)
EscalatedStepWithWorkflowTimeout(db, original_step, escalated_to_id, t) ==
    [db EXCEPT !.steps = Append(@,
        NewStep(original_step.workflow_id, escalated_to_id, original_step.step_order,
                t + db.workflows[original_step.workflow_id].escalation_timeout_hours))]

_create_escalated_step(db, original_step, escalated_to_id, t) ==
    [db EXCEPT !.steps = Append(@,
        NewStep(original_step.workflow_id, escalated_to_id, original_step.step_order,
                t + EscalatedTimeoutHours))]

StepStatusFor(action) ==
    CASE action = "approve" -> "approved"
      [] action = "reject" -> "rejected"
      [] action = "request_info" -> "pending"
      [] action = "delegate" -> "delegated"
      [] action = "escalate" -> "escalated"

process_approval_step(db, step_id, action, approver_id, delegated_to_id, escalated_to_id, t) ==
    IF step_id \notin StepIds(db) \/ db.steps[step_id].approver_id # approver_id
    THEN db
    ELSE LET step == db.steps[step_id]
             db1 == CASE action = "delegate" -> _create_delegated_step(db, step, delegated_to_id)
                      [] action = "escalate" -> _create_escalated_step(db, step, escalated_to_id, t)
                      [] OTHER -> db
             db2 == [db1 EXCEPT
                        !.steps[step_id].action = action,
                        !.steps[step_id].completed_at = IF action = "request_info" THEN @ ELSE t,
                        !.steps[step_id].status = StepStatusFor(action),
                        !.steps[step_id].delegated_to_id = IF action = "delegate" THEN delegated_to_id ELSE @,
                        !.steps[step_id].escalated_to_id = IF action = "escalate" THEN escalated_to_id ELSE @]
         IN  _check_and_update_workflow_status(db2, step.workflow_id, t)

(* ------------------------------ service ------------------------------- *)

Ok == "ok"
StepNotFound == "ValueError: Approval step not found"
NotAuthorized == "PermissionError: User is not authorized to approve this step"
StepAlready == "ValueError: Step is already {status}"
DelegateRequired == "ValueError: Delegate user ID is required for delegation"
EscalateRequired == "ValueError: Escalation target is required"
ActiveExists == "ValueError: Ticket already has an active approval workflow"
CannotCancel == "PermissionError: User cannot cancel this workflow"
ReturnedFalse == "returned False"

Audit(ticket_id, text, user) == [ticket_id |-> ticket_id, text |-> text, user |-> user]

Outcome(db, err, audit) == [db |-> db, err |-> err, audit |-> audit]

_validate_approval_action(action, delegated_to_id, escalated_to_id) ==
    IF action = "delegate" /\ delegated_to_id = None THEN DelegateRequired
    ELSE IF action = "escalate" /\ escalated_to_id = None THEN EscalateRequired
    ELSE Ok

(* the same checks with the status looked at before the approver, for       *)
(* comparison                                                              *)
ValidateStatusFirst(db, step_id, action, approver_id, delegated_to_id, escalated_to_id) ==
    IF step_id \notin StepIds(db) THEN StepNotFound
    ELSE IF db.steps[step_id].status # "pending" THEN StepAlready
    ELSE IF db.steps[step_id].approver_id # approver_id THEN NotAuthorized
    ELSE _validate_approval_action(action, delegated_to_id, escalated_to_id)

(* the same checks without the status check, for comparison *)
ValidateIgnoringStatus(db, step_id, action, approver_id, delegated_to_id, escalated_to_id) ==
    IF step_id \notin StepIds(db) THEN StepNotFound
    ELSE IF db.steps[step_id].approver_id # approver_id THEN NotAuthorized
    ELSE _validate_approval_action(action, delegated_to_id, escalated_to_id)

(* process_approval_action, lines 98-110: the checks made on the step as read *)
ValidateApprovalAction(db, step_id, action, approver_id, delegated_to_id, escalated_to_id) ==
    IF step_id \notin StepIds(db) THEN StepNotFound
    ELSE IF db.steps[step_id].approver_id # approver_id THEN NotAuthorized
    ELSE IF db.steps[step_id].status # "pending" THEN StepAlready
    ELSE _validate_approval_action(action, delegated_to_id, escalated_to_id)

action_descriptions(action) ==
    CASE action = "approve" -> "approved"
      [] action = "reject" -> "rejected"
      [] action = "request_info" -> "requested additional information for"
      [] action = "delegate" -> "delegated"
      [] action = "escalate" -> "escalated"

_create_approval_comment(db, step_id, action, approver_id) ==
    <<Audit(db.workflows[db.steps[step_id].workflow_id].ticket_id, action_descriptions(action), approver_id)>>

_handle_post_approval_logic(db, step_id, action) ==
    LET workflow_id == db.steps[step_id].workflow_id
        ticket_id == db.workflows[workflow_id].ticket_id
        db1 == IF action = "reject" THEN update_ticket_status(db, ticket_id, "rejected") ELSE db
    IN  IF db1.workflows[workflow_id].status = "completed"
        THEN update_ticket_status(db1, ticket_id, "approved")
        ELSE db1

(* process_approval_action, lines 112-128: the writes, once the checks passed *)
ApplyApprovalAction(db, step_id, action, approver_id, delegated_to_id, escalated_to_id, t) ==
    LET db1 == process_approval_step(db, step_id, action, approver_id, delegated_to_id, escalated_to_id, t)
    IN  Outcome(_handle_post_approval_logic(db1, step_id, action), Ok,
                _create_approval_comment(db, step_id, action, approver_id))

process_approval_action(db, step_id, action, approver_id, delegated_to_id, escalated_to_id, t) ==
    LET err == ValidateApprovalAction(db, step_id, action, approver_id, delegated_to_id, escalated_to_id)
    IN  IF err = Ok
        THEN ApplyApprovalAction(db, step_id, action, approver_id, delegated_to_id, escalated_to_id, t)
        ELSE Outcome(db, err, <<>>)

request_additional_info(db, step_id, approver_id, t) ==
    LET r == process_approval_action(db, step_id, "request_info", approver_id, None, None, t)
    IN  IF r.err = Ok
        THEN [r EXCEPT !.db = update_ticket_status(r.db,
                 r.db.workflows[r.db.steps[step_id].workflow_id].ticket_id, "pending_info")]
        ELSE r

_validate_workflow_creation(db, ticket_id) ==
    IF \E w \in WorkflowIds(db) : db.workflows[w].ticket_id = ticket_id /\ db.workflows[w].status = "active"
    THEN ActiveExists
    ELSE Ok

_determine_approvers(ticket) ==
    IF ticket.manager_id # None THEN <<ticket.manager_id>> ELSE <<>>

Truthy(x) == x # NoThreshold /\ x # 0

RECURSIVE SortedSeq(_)
SortedSeq(S) ==
    IF S = {} THEN <<>>
    ELSE LET m == CHOOSE x \in S : \A y \in S : x <= y
         IN  <<m>> \o SortedSeq(S \ {m})

RECURSIVE AutoApproveSteps(_, _, _)
AutoApproveSteps(db, ids, t) ==
    IF ids = <<>> THEN db
    ELSE AutoApproveSteps(
            process_approval_step(db, Head(ids), "approve", db.steps[Head(ids)].approver_id, None, None, t),
            Tail(ids), t)

_auto_approve_workflow(db, workflow_id, t) ==
    Outcome(AutoApproveSteps(db, SortedSeq({i \in StepsOf(db, workflow_id) : db.steps[i].status = "pending"}), t),
            Ok,
            <<Audit(db.workflows[workflow_id].ticket_id, "Workflow auto-approved based on configured threshold", None)>>)

ResolvedApprovers(db, ticket_id, approver_ids) ==
    IF approver_ids = <<>> THEN _determine_approvers(db.tickets[ticket_id]) ELSE approver_ids

(* create_approval_workflow, lines 53-88: the writes, once validation passed *)
ApplyCreateWorkflow(db, ticket_id, workflow_type, approver_ids, initiated_by_id, threshold, timeout, t) ==
    LET approvers == ResolvedApprovers(db, ticket_id, approver_ids)
        db1 == create_workflow(db, ticket_id, workflow_type, approvers, initiated_by_id, timeout, t)
        workflow_id == Len(db1.workflows)
        db2 == update_ticket_status(db1, ticket_id, "in_review")
        audit == <<Audit(ticket_id, "Approval workflow initiated", Len(approvers))>>
        cost == db.tickets[ticket_id].cost_estimate
    IN  IF Truthy(threshold) /\ Truthy(cost) /\ cost <= threshold
        THEN LET r == _auto_approve_workflow(db2, workflow_id, t)
             IN  Outcome(r.db, Ok, audit \o r.audit)
        ELSE Outcome(db2, Ok, audit)

create_approval_workflow(db, ticket_id, workflow_type, approver_ids, initiated_by_id, threshold, timeout, t) ==
    LET err == _validate_workflow_creation(db, ticket_id)
    IN  IF err = Ok
        THEN ApplyCreateWorkflow(db, ticket_id, workflow_type, approver_ids, initiated_by_id, threshold, timeout, t)
        ELSE Outcome(db, err, <<>>)

_can_cancel_workflow(db, workflow_id, user_id) ==
    \/ db.workflows[workflow_id].initiated_by_id = user_id
    \/ db.tickets[db.workflows[workflow_id].ticket_id].requester_id = user_id

(* cancelling with every step of the workflow skipped, for comparison *)
SkipEveryStep(db, workflow_id) ==
    [db EXCEPT !.steps = [i \in DOMAIN @ |->
        IF @[i].workflow_id = workflow_id
        THEN [@[i] EXCEPT !.status = "skipped"]
        ELSE @[i]]]

(* cancelling with the pending steps left as they are, for comparison *)
SkipNoStep(db, workflow_id) == db

_cancel_pending_steps(db, workflow_id) ==
    [db EXCEPT !.steps = [i \in DOMAIN @ |->
        IF @[i].workflow_id = workflow_id /\ @[i].status = "pending"
        THEN [@[i] EXCEPT !.status = "skipped"]
        ELSE @[i]]]

cancel_workflow(db, workflow_id, cancelled_by_id) ==
    IF workflow_id \notin WorkflowIds(db) THEN Outcome(db, ReturnedFalse, <<>>)
    ELSE IF ~_can_cancel_workflow(db, workflow_id, cancelled_by_id) THEN Outcome(db, CannotCancel, <<>>)
    ELSE IF db.workflows[workflow_id].status # "active" THEN Outcome(db, ReturnedFalse, <<>>)
    ELSE LET ticket_id == db.workflows[workflow_id].ticket_id
             db1 == _cancel_pending_steps([db EXCEPT !.workflows[workflow_id].status = "cancelled"], workflow_id)
         IN  Outcome(update_ticket_status(db1, ticket_id, "submitted"), Ok,
                     <<Audit(ticket_id, "Approval workflow cancelled by user", cancelled_by_id)>>)

(* ------------------------------ sweep --------------------------------- *)

(* the overdue steps chosen by due date alone, for comparison *)
OverdueWhateverStatus(db, t) ==
    SortedSeq({i \in StepIds(db) : db.steps[i].due_date < t})

get_overdue_approvals(db, t) ==
    SortedSeq({i \in StepIds(db) : db.steps[i].status = "pending" /\ db.steps[i].due_date < t})

_find_escalation_target(db, roles, step_id) ==
    LET ticket == db.tickets[db.workflows[db.steps[step_id].workflow_id].ticket_id]
        admins == {u \in DOMAIN roles : roles[u] = "admin"}
    IN  IF ticket.manager_id # None THEN ticket.manager_id
        ELSE IF admins # {} THEN CHOOSE u \in admins : \A v \in admins : u <= v
        ELSE None

(* the loop given up at the first step without a target, for comparison *)
RECURSIVE EscalateUntilNoTarget(_, _, _, _, _)
EscalateUntilNoTarget(db, roles, overdue, snapshot, t) ==
    IF overdue = <<>> THEN Outcome(db, Ok, <<>>)
    ELSE LET step_id == Head(overdue)
             step == snapshot[step_id]
             target == _find_escalation_target(db, roles, step_id)
         IN  IF target = None
             THEN Outcome(db, Ok, <<>>)
             ELSE LET db1 == _create_escalated_step(db, step, target, t)
                      db2 == [db1 EXCEPT !.steps[step_id].status = "escalated",
                                         !.steps[step_id].escalated_to_id = target,
                                         !.steps[step_id].completed_at = t]
                  IN  EscalateUntilNoTarget(db2, roles, Tail(overdue), snapshot, t)

(* the loop of auto_escalate_overdue_steps over the steps read as overdue,  *)
(* with the comment escalate_overdue_approvals writes for each new step     *)
RECURSIVE EscalateEach(_, _, _, _, _)
EscalateEach(db, roles, overdue, snapshot, t) ==
    IF overdue = <<>> THEN Outcome(db, Ok, <<>>)
    ELSE LET step_id == Head(overdue)
             step == snapshot[step_id]
             target == _find_escalation_target(db, roles, step_id)
             first == CHOOSE i \in StepsOf(db, step.workflow_id) : \A j \in StepsOf(db, step.workflow_id) : i <= j
         IN  IF target = None
             THEN EscalateEach(db, roles, Tail(overdue), snapshot, t)
             ELSE LET db1 == _create_escalated_step(db, step, target, t)
                      db2 == [db1 EXCEPT !.steps[step_id].status = "escalated",
                                         !.steps[step_id].escalated_to_id = target,
                                         !.steps[step_id].completed_at = t]
                      rest == EscalateEach(db2, roles, Tail(overdue), snapshot, t)
                  IN  Outcome(rest.db, Ok,
                              <<Audit(db.workflows[step.workflow_id].ticket_id,
                                      "Approval step escalated due to timeout. Original approver",
                                      db.steps[first].approver_id)>> \o rest.audit)

escalate_overdue_approvals(db, roles, t) ==
    EscalateEach(db, roles, get_overdue_approvals(db, t), db.steps, t)

(* ------------------------------ failing comment write ----------------- *)
CommentWriteFailed == "Exception raised by create_system_comment"

(* A service call whose create_system_comment raises: the service has no    *)
(* handler around it, the exception leaves the call, and get_db rolls the   *)
(* session back.  A call that writes no comment is not affected.            *)
WithCommentWrite(db, r, comment_ok) ==
    IF r.err = Ok /\ r.audit # <<>> /\ ~comment_ok
    THEN Outcome(db, CommentWriteFailed, <<>>)
    ELSE r

(* ------------------------------ actions ------------------------------- *)

Idle == [op |-> "idle", id |-> None, action |-> "none", actor |-> None, target |-> None,
         approver_ids |-> <<>>, overdue |-> <<>>]

Request(op, id, action, actor, target, approver_ids) ==
    [op |-> op, id |-> id, action |-> action, actor |-> actor, target |-> target,
     approver_ids |-> approver_ids, overdue |-> <<>>]

(* a sweep that has read the overdue steps *)
SweepRequest(overdue) == [Idle EXCEPT !.op = "sweep", !.overdue = overdue]

(* the statements of a call reach the store as they are issued *)
Commit(db) ==
    /\ workflows' = db.workflows
    /\ steps' = db.steps
    /\ tickets' = db.tickets

Targets(action) == IF action \in {"delegate", "escalate"} THEN TargetChoices ELSE {None}

TicketRows == {[status |-> "submitted", cost_estimate |-> 1, manager_id |-> Manager, requester_id |-> Requester],
               [status |-> "submitted", cost_estimate |-> 0, manager_id |-> None, requester_id |-> Requester]}

Init ==
    /\ workflows = <<>>
    /\ steps = <<>>
    /\ tickets \in [Tickets -> TicketRows]
    /\ users = [u \in Users |-> "employee"]
    /\ now = 0
    /\ req = [p \in Procs |-> Idle]

(* POST /steps/{step_id}/process, one call run to completion *)
ProcessApprovalAction ==
    \E step_id \in 1..(Len(steps) + 1), action \in ApprovalAction, approver_id \in Users :
    \E target \in Targets(action) :
        LET d == IF action = "delegate" THEN target ELSE None
            e == IF action = "escalate" THEN target ELSE None
            r == process_approval_action(Db, step_id, action, approver_id, d, e, now)
        IN  /\ Len(r.db.steps) <= MaxSteps
            /\ Commit(r.db)
            /\ UNCHANGED <<users, now, req>>

(* POST /steps/{step_id}/request-info *)
RequestAdditionalInfo ==
    \E step_id \in 1..(Len(steps) + 1), approver_id \in Users :
        /\ Commit(request_additional_info(Db, step_id, approver_id, now).db)
        /\ UNCHANGED <<users, now, req>>

(* POST /workflows, one call run to completion *)
CreateApprovalWorkflow ==
    \E ticket_id \in Tickets, workflow_type \in WorkflowType, approver_ids \in ApproverLists,
       initiated_by_id \in Initiators, threshold \in Thresholds, timeout \in TimeoutChoices :
        LET r == create_approval_workflow(Db, ticket_id, workflow_type, approver_ids,
                                          initiated_by_id, threshold, timeout, now)
        IN  /\ Len(r.db.workflows) <= MaxWorkflows
            /\ Len(r.db.steps) <= MaxSteps
            /\ Commit(r.db)
            /\ UNCHANGED <<users, now, req>>

(* DELETE /workflows/{workflow_id} *)
CancelWorkflow ==
    \E workflow_id \in 1..(Len(workflows) + 1), cancelled_by_id \in Users :
        /\ Commit(cancel_workflow(Db, workflow_id, cancelled_by_id).db)
        /\ UNCHANGED <<users, now, req>>

Next ==
    \/ CreateApprovalWorkflow
    \/ ProcessApprovalAction
    \/ RequestAdditionalInfo
    \/ CancelWorkflow

Spec == Init /\ [][Next]_vars

(* ------------------------------ clock and sweep ----------------------- *)
(* The clock and the sweep are kept apart from Next: a specification that  *)
(* lets time pass adds them to the request handlers.                       *)

Tick ==
    /\ now < MaxTime
    /\ now' = now + 1
    /\ UNCHANGED <<workflows, steps, tickets, users, req>>

(* POST /escalate-overdue, one sweep run to completion *)
EscalateOverdueApprovals ==
    LET r == escalate_overdue_approvals(Db, users, now)
    IN  /\ Len(r.db.steps) <= MaxSteps
        /\ Commit(r.db)
        /\ UNCHANGED <<users, now, req>>

(* the request handlers, the clock and the sweep, one call at a time *)
NextSweep ==
    \/ CreateApprovalWorkflow /\ Len(workflows') <= SweepWorkflows
    \/ ProcessApprovalAction
    \/ RequestAdditionalInfo
    \/ CancelWorkflow
    \/ Tick
    \/ EscalateOverdueApprovals

SpecSweep == Init /\ [][NextSweep]_vars

(* ------------------------------ concurrent requests ------------------- *)
(* Requests are coroutines on one event loop; each await of a query is a    *)
(* point where another request may run.  A call is split where the service *)
(* has finished its reads and checks and goes on to write.                  *)

ConcActions == {"approve", "reject", "delegate"}
ConcTypes == {"sequential", "parallel"}
ConcApproverLists == {<<1>>}

(* process_approval_action up to line 110: the step is read and checked *)
BeginProcess(p) ==
    /\ req[p] = Idle
    /\ \E step_id \in StepIds(Db), action \in ConcActions, approver_id \in Users :
       \E target \in Targets(action) :
           /\ ValidateApprovalAction(Db, step_id, action, approver_id,
                                     IF action = "delegate" THEN target ELSE None, None) = Ok
           /\ req' = [req EXCEPT ![p] = Request("process", step_id, action, approver_id, target, <<>>)]
    /\ UNCHANGED <<workflows, steps, tickets, users, now>>

(* process_approval_action from line 112: the writes *)
FinishProcess(p) ==
    /\ req[p].op = "process"
    /\ LET r == ApplyApprovalAction(Db, req[p].id, req[p].action, req[p].actor,
                                    req[p].target, None, now)
       IN  /\ Len(r.db.steps) <= ConcSteps
           /\ Commit(r.db)
    /\ req' = [req EXCEPT ![p] = Idle]
    /\ UNCHANGED <<users, now>>

(* create_approval_workflow up to line 51: the ticket's workflows are read *)
BeginCreate(p) ==
    /\ req[p] = Idle
    /\ Len(workflows) + Cardinality({q \in Procs : req[q].op = "create"}) < ConcWorkflows
    /\ \E ticket_id \in Tickets, workflow_type \in ConcTypes, approver_ids \in ConcApproverLists,
          initiated_by_id \in Initiators :
           /\ _validate_workflow_creation(Db, ticket_id) = Ok
           /\ req' = [req EXCEPT ![p] = Request("create", ticket_id, workflow_type, initiated_by_id,
                                                None, approver_ids)]
    /\ UNCHANGED <<workflows, steps, tickets, users, now>>

(* create_approval_workflow from line 53: the writes *)
FinishCreate(p) ==
    /\ req[p].op = "create"
    /\ \E timeout \in TimeoutChoices :
           LET r == ApplyCreateWorkflow(Db, req[p].id, req[p].action, req[p].approver_ids,
                                        req[p].actor, NoThreshold, timeout, now)
           IN  /\ Len(r.db.steps) <= ConcSteps
               /\ Commit(r.db)
    /\ req' = [req EXCEPT ![p] = Idle]
    /\ UNCHANGED <<users, now>>

NextConc ==
    \E p \in Procs :
        \/ BeginCreate(p)
        \/ FinishCreate(p)
        \/ BeginProcess(p)
        \/ FinishProcess(p)

SpecConc == Init /\ [][NextConc]_vars

(* ------------------------------ concurrent sweeps --------------------- *)

(* auto_escalate_overdue_steps, line 197: the overdue steps are read *)
BeginSweep(p) ==
    /\ req[p] = Idle
    /\ get_overdue_approvals(Db, now) # <<>>
    /\ req' = [req EXCEPT ![p] = SweepRequest(get_overdue_approvals(Db, now))]
    /\ UNCHANGED <<workflows, steps, tickets, users, now>>

(* auto_escalate_overdue_steps, lines 200-218: the loop over the steps read *)
FinishSweep(p) ==
    /\ req[p].op = "sweep"
    /\ LET r == EscalateEach(Db, users, req[p].overdue, steps, now)
       IN  /\ Len(r.db.steps) <= ConcSteps
           /\ Commit(r.db)
    /\ req' = [req EXCEPT ![p] = Idle]
    /\ UNCHANGED <<users, now>>

(* POST /workflows run to completion, with the inputs of the concurrent runs *)
CreateBeforeSweep ==
    \E ticket_id \in Tickets, workflow_type \in ConcTypes, approver_ids \in ConcApproverLists,
       initiated_by_id \in Initiators, timeout \in TimeoutChoices :
        LET r == create_approval_workflow(Db, ticket_id, workflow_type, approver_ids,
                                          initiated_by_id, NoThreshold, timeout, now)
        IN  /\ Len(r.db.workflows) <= SweepWorkflows
            /\ Len(r.db.steps) <= ConcSteps
            /\ Commit(r.db)
            /\ UNCHANGED <<users, now, req>>

NextConcSweep ==
    \/ CreateBeforeSweep
    \/ Tick
    \/ \E p \in Procs :
        \/ BeginSweep(p)
        \/ FinishSweep(p)
        \/ BeginProcess(p)
        \/ FinishProcess(p)

SpecConcSweep == Init /\ [][NextConcSweep]_vars

(* ------------------------------ cancel among concurrent calls --------- *)
(* _cancel_pending_steps is one UPDATE over the steps that are pending when *)
(* it runs.  cancel_workflow is taken as one step, the fewest interleavings *)
(* it can have; the calls it runs among are split as above.                 *)
NextConcCancel ==
    \/ CreateBeforeSweep
    \/ Tick
    \/ CancelWorkflow
    \/ \E p \in Procs :
        \/ BeginSweep(p)
        \/ FinishSweep(p)
        \/ BeginProcess(p)
        \/ FinishProcess(p)

SpecConcCancel == Init /\ [][NextConcCancel]_vars

(* ------------------------------ sweeps over two tickets --------------- *)
(* Two tickets, each of a department with or without a manager, and an      *)
(* admin user or none: what the sweep's target lookup depends on.           *)

RoleChoices == {[u \in Users |-> "employee"],
                [u \in Users |-> IF u = Manager THEN "admin" ELSE "employee"]}

InitTwoTickets ==
    /\ workflows = <<>>
    /\ steps = <<>>
    /\ tickets \in [1..2 -> TicketRows]
    /\ users \in RoleChoices
    /\ now = 0
    /\ req = [p \in Procs |-> Idle]

(* POST /workflows on either ticket, one call run to completion *)
CreateOnTicket ==
    \E ticket_id \in DOMAIN tickets, workflow_type \in ConcTypes, approver_ids \in ConcApproverLists,
       initiated_by_id \in Initiators, timeout \in TimeoutChoices :
        LET r == create_approval_workflow(Db, ticket_id, workflow_type, approver_ids,
                                          initiated_by_id, NoThreshold, timeout, now)
        IN  /\ Len(r.db.workflows) <= MaxWorkflows
            /\ Len(r.db.steps) <= MaxSteps
            /\ Commit(r.db)
            /\ UNCHANGED <<users, now, req>>

(* POST /steps/{step_id}/process with the actions that create no step *)
ApproveOrReject ==
    \E step_id \in StepIds(Db), action \in {"approve", "reject"}, approver_id \in Users :
        /\ Commit(process_approval_action(Db, step_id, action, approver_id, None, None, now).db)
        /\ UNCHANGED <<users, now, req>>

NextTwoTickets ==
    \/ CreateOnTicket
    \/ ApproveOrReject
    \/ CancelWorkflow
    \/ Tick
    \/ EscalateOverdueApprovals

SpecTwoTickets == InitTwoTickets /\ [][NextTwoTickets]_vars

(* ------------------------------ properties ---------------------------- *)

TicketOf(db, workflow_id) == db.tickets[db.workflows[workflow_id].ticket_id]

(* a process_step call as its approver may issue it in the current state *)
ProcessAs(step_id, action, approver_id, target) ==
    process_approval_action(Db, step_id, action, approver_id,
                            IF action = "delegate" THEN target ELSE None,
                            IF action = "escalate" THEN target ELSE None, now)

(* C1: whatever the workflow type, when the approver of a pending step      *)
(* rejects it, on return the step is rejected, its workflow is completed    *)
(* and the ticket is rejected, whether or not other steps are pending.      *)
C1_RejectRejectsTicket ==
    \A step_id \in StepIds(Db) :
        steps[step_id].status = "pending" =>
            LET r == ProcessAs(step_id, "reject", steps[step_id].approver_id, None)
                w == steps[step_id].workflow_id
            IN  /\ r.err = Ok
                /\ r.db.steps[step_id].status = "rejected"
                /\ r.db.workflows[w].status = "completed"
                /\ TicketOf(r.db, w).status = "rejected"

(* C2: once a workflow is completed or cancelled, every process_step call   *)
(* on any of its steps fails and changes no step, workflow or ticket.       *)
C2_TerminalWorkflowRefusesSteps ==
    \A step_id \in StepIds(Db), action \in ApprovalAction, approver_id \in Users, target \in Users \cup {None} :
        workflows[steps[step_id].workflow_id].status \in {"completed", "cancelled"} =>
            LET r == ProcessAs(step_id, action, approver_id, target)
            IN  r.err # Ok /\ r.db = Db

(* C5: for a step that is not pending, a process_step call by its approver  *)
(* with any of the five actions fails with the already-processed error and  *)
(* leaves every step, workflow and ticket unchanged.                        *)
C5_NonPendingStepConflict ==
    \A step_id \in StepIds(Db), action \in ApprovalAction, target \in Users \cup {None} :
        steps[step_id].status # "pending" =>
            LET r == ProcessAs(step_id, action, steps[step_id].approver_id, target)
            IN  r.err = StepAlready /\ r.db = Db

(* a skipped step and a delegated step, each refusing its approver's call *)
C5_Witness ==
    \E a, b \in StepIds(Db) :
        /\ steps[a].status = "skipped"
        /\ steps[b].status = "delegated"
        /\ ProcessAs(a, "approve", steps[a].approver_id, None).err = StepAlready
        /\ ProcessAs(b, "reject", steps[b].approver_id, None).err = StepAlready

(* the scenario of a claim made "without rejection or cancellation" *)
NoRejection == \A i \in StepIds(Db) : steps[i].status # "rejected"
NoCancellation == \A w \in WorkflowIds(Db) : workflows[w].status # "cancelled"

(* the workflow created last for its ticket *)
Latest(w) == \A v \in WorkflowIds(Db) : workflows[v].ticket_id = workflows[w].ticket_id => v <= w

AllApproved(w) == \A i \in StepsOf(Db, w) : steps[i].status = "approved"
NonePending(w) == \A i \in StepsOf(Db, w) : steps[i].status # "pending"
CompletedApproved(w) == workflows[w].status = "completed" /\ TicketOf(Db, w).status = "approved"

C7_ParallelApprovedOnlyWhenAll ==
    \A w \in WorkflowIds(Db) :
        (workflows[w].workflow_type = "parallel" /\ Latest(w) /\ CompletedApproved(w)) => AllApproved(w)

(* C8: in a sequential or parallel workflow with a delegated step, once the *)
(* delegate has approved the new step and every other step that is not      *)
(* delegated is approved, the workflow is completed, the ticket approved.   *)
C8_DelegateApprovalCompletes ==
    \A w \in WorkflowIds(Db) :
        (/\ workflows[w].workflow_type \in {"sequential", "parallel"}
         /\ Latest(w) /\ NoRejection /\ NoCancellation
         /\ \E i \in StepsOf(Db, w) : steps[i].status = "delegated"
         /\ \A i \in StepsOf(Db, w) : steps[i].status \in {"delegated", "approved"})
        => CompletedApproved(w)

(* C9: a successful delegate action on pending step S to user U2 leaves S   *)
(* delegated with its approver unchanged and adds exactly one step, in the  *)
(* same workflow: approver U2, pending, same step_order and due date as S;  *)
(* no other step is added, removed or changed.                              *)
C9_DelegateFrame ==
    \A S \in StepIds(Db), U2 \in Users :
        LET r == ProcessAs(S, "delegate", steps[S].approver_id, U2)
            new == r.db.steps[Len(steps) + 1]
        IN  steps[S].status = "pending" =>
                /\ r.err = Ok
                /\ Len(r.db.steps) = Len(steps) + 1
                /\ r.db.steps[S].status = "delegated"
                /\ r.db.steps[S].approver_id = steps[S].approver_id
                /\ new.workflow_id = steps[S].workflow_id
                /\ new.approver_id = U2
                /\ new.status = "pending"
                /\ new.step_order = steps[S].step_order
                /\ new.due_date = steps[S].due_date
                /\ \A i \in StepIds(Db) \ {S} : r.db.steps[i] = steps[i]

(* a delegated step, its new step and a further step of the same workflow *)
C9_Witness ==
    \E S, n, o \in StepIds(Db) :
        /\ steps[S].status = "delegated" /\ n > S /\ o \notin {S, n}
        /\ steps[n].workflow_id = steps[S].workflow_id /\ steps[o].workflow_id = steps[S].workflow_id
        /\ steps[n].approver_id = steps[S].delegated_to_id
        /\ steps[n].step_order = steps[S].step_order

(* C10: createWorkflow with type auto_approve, a threshold T and a ticket   *)
(* with a cost estimate (above zero) at or below T returns with every step  *)
(* of the new workflow approved and the workflow completed.                 *)
C10_AutoApproveCompletes ==
    \A ticket_id \in Tickets, approver_ids \in ApproverLists, initiated_by_id \in Initiators,
       threshold \in Thresholds, timeout \in TimeoutChoices :
        LET r == create_approval_workflow(Db, ticket_id, "auto_approve", approver_ids,
                                          initiated_by_id, threshold, timeout, now)
            w == Len(r.db.workflows)
        IN  (/\ r.err = Ok
             /\ threshold # NoThreshold
             /\ tickets[ticket_id].cost_estimate > 0
             /\ tickets[ticket_id].cost_estimate <= threshold)
            => /\ \A i \in StepsOf(r.db, w) : r.db.steps[i].status = "approved"
               /\ r.db.workflows[w].status = "completed"

(* C3: when two process_step calls on the same pending step run             *)
(* concurrently, at most one of them applies a transition to the step: a    *)
(* step is written only while it is pending, and no second sibling appears. *)
C3_OneCallApplies ==
    [][\A i \in StepIds(Db) : steps'[i] # steps[i] => steps[i].status = "pending"]_vars

(* C4: in every reachable state, interleaved createWorkflow calls included, *)
(* each ticket has at most one active workflow, and a createWorkflow call   *)
(* for a ticket with an active workflow fails and creates nothing.          *)
C4_OneActiveWorkflow ==
    /\ \A t \in Tickets :
          Cardinality({w \in WorkflowIds(Db) : workflows[w].ticket_id = t /\ workflows[w].status = "active"}) <= 1
    /\ \A t \in Tickets, workflow_type \in WorkflowType, approver_ids \in ApproverLists,
          initiated_by_id \in Initiators, threshold \in Thresholds, timeout \in TimeoutChoices :
          (\E w \in WorkflowIds(Db) : workflows[w].ticket_id = t /\ workflows[w].status = "active") =>
              LET r == create_approval_workflow(Db, t, workflow_type, approver_ids, initiated_by_id,
                                                threshold, timeout, now)
              IN  r.err = ActiveExists /\ r.db = Db

(* C11: in every state between operations, whatever the workflow type, no   *)
(* workflow (with at least one step) is active while all of its steps are   *)
(* approved.                                                                *)
C11_NoActiveWhenAllApproved ==
    \A w \in WorkflowIds(Db) :
        (StepsOf(Db, w) # {} /\ AllApproved(w)) => workflows[w].status # "active"

(* C12: over any sequence of create, process, sweep, auto-approval and      *)
(* cancel operations a step's status changes only from pending, to one of   *)
(* approved, rejected, delegated, escalated or skipped; a step that has     *)
(* left pending never changes status again.                                 *)
C12_StatusChangesOnce ==
    [][\A i \in DOMAIN steps :
          steps'[i].status # steps[i].status =>
              /\ steps[i].status = "pending"
              /\ steps'[i].status \in {"approved", "rejected", "delegated", "escalated", "skipped"}]_vars

(* steps that left pending by the sweep, by a cancel and by an approver *)
C12_Witness ==
    \E i, j, k \in StepIds(Db) :
        /\ steps[i].status = "escalated" /\ steps[i].action = "none"
        /\ steps[j].status = "skipped"
        /\ steps[k].status \in {"approved", "rejected", "delegated"}

(* C13: when a reject action completes a workflow, every other step of the  *)
(* workflow keeps the status it had before the call: pending steps remain   *)
(* pending and are not marked skipped.                                      *)
C13_RejectLeavesOtherSteps ==
    \A S \in StepIds(Db) :
        steps[S].status = "pending" =>
            LET r == ProcessAs(S, "reject", steps[S].approver_id, None)
            IN  /\ r.err = Ok
                /\ r.db.workflows[steps[S].workflow_id].status = "completed"
                /\ Len(r.db.steps) = Len(steps)
                /\ \A i \in StepIds(Db) \ {S} : r.db.steps[i] = steps[i]

(* a workflow completed by a rejection with another of its steps pending *)
C13_Witness ==
    \E S, i \in StepIds(Db) :
        /\ steps[S].status = "rejected" /\ steps[i].status = "pending"
        /\ steps[i].workflow_id = steps[S].workflow_id
        /\ workflows[steps[S].workflow_id].status = "completed"

(* the steps a sweep run now must escalate: pending, overdue, with a target *)
Escalatable ==
    {i \in StepIds(Db) : /\ steps[i].status = "pending" /\ steps[i].due_date < now
                         /\ _find_escalation_target(Db, users, i) # None}

(* C14: two sweeps in immediate succession escalate each overdue pending    *)
(* step with a resolvable target exactly once: the first leaves the step    *)
(* escalated with one new pending sibling, the second selects none of those *)
(* steps and creates no further step.                                       *)
C14_SweepTwiceEscalatesOnce ==
    LET r1 == escalate_overdue_approvals(Db, users, now)
        r2 == escalate_overdue_approvals(r1.db, users, now)
    IN  /\ Len(r1.db.steps) = Len(steps) + Cardinality(Escalatable)
        /\ \A i \in Escalatable :
              /\ r1.db.steps[i].status = "escalated"
              /\ Cardinality({j \in StepIds(r1.db) \ StepIds(Db) :
                                /\ r1.db.steps[j].workflow_id = steps[i].workflow_id
                                /\ r1.db.steps[j].step_order = steps[i].step_order
                                /\ r1.db.steps[j].status = "pending"}) = 1
        /\ r2.db = r1.db
        /\ r2.audit = <<>>

(* a sweep has escalated an overdue step and a second sweep has nothing left *)
C14_Witness ==
    \E i, j \in StepIds(Db) :
        /\ steps[i].status = "escalated" /\ steps[i].action = "none"
        /\ steps[i].due_date < steps[i].completed_at
        /\ j > i /\ steps[j].status = "pending"
        /\ steps[j].workflow_id = steps[i].workflow_id /\ steps[j].step_order = steps[i].step_order
        /\ steps[j].due_date = steps[i].completed_at + EscalatedTimeoutHours
        /\ now = steps[i].completed_at
        /\ Escalatable = {}

SeqRange(q) == {q[k] : k \in DOMAIN q}

(* C15: when two sweeps, or a sweep and a process_step call, run            *)
(* concurrently, at most one of them escalates a given overdue step: a      *)
(* sweep creates escalated siblings only for steps that are still pending   *)
(* when it writes.                                                          *)
C15_SweepEscalatesPendingOnly ==
    [][\A p \in Procs :
          (req[p].op = "sweep" /\ req'[p].op = "idle") =>
              Len(steps') - Len(steps)
                  <= Cardinality({i \in SeqRange(req[p].overdue) : steps[i].status = "pending"})]_vars

(* C16: every process_step call that fails (unknown step, actor not the     *)
(* step's approver, step not pending, delegate without delegate_to,         *)
(* escalate without escalate_to) leaves every step, workflow and ticket as  *)
(* before and creates no step; an actor other than the step's approver      *)
(* always gets the permission error.                                        *)
C16_FailedCallChangesNothing ==
    \A step_id \in 1..(Len(steps) + 1), action \in ApprovalAction, approver_id \in Users,
       target \in Users \cup {None} :
        LET r == ProcessAs(step_id, action, approver_id, target)
            known == step_id \in StepIds(Db)
            failing == \/ ~known
                       \/ steps[step_id].approver_id # approver_id
                       \/ steps[step_id].status # "pending"
                       \/ action \in {"delegate", "escalate"} /\ target = None
        IN  /\ failing => r.err # Ok
            /\ r.err # Ok => r.db = Db
            /\ (known /\ steps[step_id].approver_id # approver_id) => r.err = NotAuthorized

(* a step already processed, called by someone else; an unknown step; a     *)
(* pending step asked to delegate to nobody                                 *)
C16_Witness ==
    \E i, j \in StepIds(Db), u \in Users :
        /\ steps[i].status = "approved" /\ u # steps[i].approver_id
        /\ ProcessAs(i, "approve", u, None).err = NotAuthorized
        /\ ProcessAs(Len(steps) + 1, "approve", u, None).err = StepNotFound
        /\ steps[j].status = "pending"
        /\ ProcessAs(j, "delegate", steps[j].approver_id, None).err = DelegateRequired

(* C17: a successful cancel of an active workflow sets the workflow's       *)
(* status to cancelled and every step of it that was pending to skipped;    *)
(* no step is deleted and every step that was not pending keeps its status. *)
C17_CancelFrame ==
    \A w \in WorkflowIds(Db), u \in Users :
        LET r == cancel_workflow(Db, w, u)
        IN  /\ (workflows[w].status = "active" /\ _can_cancel_workflow(Db, w, u)) => r.err = Ok
            /\ r.err = Ok =>
                  /\ workflows[w].status = "active"
                  /\ r.db.workflows[w].status = "cancelled"
                  /\ DOMAIN r.db.steps = DOMAIN steps
                  /\ \A i \in StepIds(Db) :
                        IF steps[i].workflow_id = w /\ steps[i].status = "pending"
                        THEN r.db.steps[i] = [steps[i] EXCEPT !.status = "skipped"]
                        ELSE r.db.steps[i] = steps[i]

(* a cancelled workflow with a skipped step beside a step that had been     *)
(* processed before the cancel                                              *)
C17_Witness ==
    \E i, j \in StepIds(Db) :
        /\ steps[i].workflow_id = steps[j].workflow_id
        /\ workflows[steps[i].workflow_id].status = "cancelled"
        /\ steps[i].status = "skipped"
        /\ steps[j].status \in {"approved", "delegated", "escalated"}

(* C18: a cancel call by an authorized actor on a workflow whose status is  *)
(* completed is rejected with an error and leaves the workflow, its steps   *)
(* and the ticket unchanged.                                                *)
C18_CancelCompletedIsRejected ==
    \A w \in WorkflowIds(Db), u \in Users :
        (workflows[w].status = "completed" /\ _can_cancel_workflow(Db, w, u)) =>
            LET r == cancel_workflow(Db, w, u)
            IN  r.err \notin {Ok, ReturnedFalse} /\ r.db = Db

(* C19: a process_step call with action request_info by the approver of a   *)
(* pending step leaves the step pending with no completion time, moves the  *)
(* ticket to pending_info, and does not consume the step: the approver can  *)
(* afterwards approve, reject, delegate or escalate it.                     *)
C19_RequestInfoKeepsStepOpen ==
    \A S \in StepIds(Db) :
        steps[S].status = "pending" =>
            LET r == ProcessAs(S, "request_info", steps[S].approver_id, None)
            IN  /\ r.err = Ok
                /\ r.db.steps[S].status = "pending"
                /\ r.db.steps[S].completed_at = NoTime
                /\ TicketOf(r.db, steps[S].workflow_id).status = "pending_info"
                /\ \A action \in ApprovalAction \ {"request_info"} :
                      ValidateApprovalAction(r.db, S, action, steps[S].approver_id, Manager, Manager) = Ok

(* the escalation timeouts a workflow may have been configured with *)
EscalationTimeouts == {1, 12, 24}

(* C20: a successful escalate action on a pending step sets the step to     *)
(* escalated and creates exactly one new pending step for the escalation    *)
(* target in the same workflow, with the same step_order and a due date 12  *)
(* hours after the time of escalation, whatever the workflow's configured   *)
(* escalation timeout.                                                      *)
C20_EscalateCreatesOneStep ==
    \A S \in StepIds(Db), U \in Users, timeout \in EscalationTimeouts :
        steps[S].status = "pending" =>
            LET db == [Db EXCEPT !.workflows[steps[S].workflow_id].escalation_timeout_hours = timeout]
                r == process_approval_action(db, S, "escalate", steps[S].approver_id, None, U, now)
            IN  r.err = Ok =>
                    /\ r.db.steps[S].status = "escalated"
                    /\ Len(r.db.steps) = Len(steps) + 1
                    /\ r.db.steps[Len(steps) + 1] =
                           NewStep(steps[S].workflow_id, U, steps[S].step_order, now + 12)
                    /\ \A i \in StepIds(Db) \ {S} : r.db.steps[i] = steps[i]

(* an approver has escalated a step after time has passed, and the step     *)
(* created for the target is due 12 hours later                             *)
C20_Witness ==
    \E i, j \in StepIds(Db) :
        /\ steps[i].status = "escalated" /\ steps[i].action = "escalate"
        /\ steps[i].completed_at > 0
        /\ j > i /\ steps[j].approver_id = steps[i].escalated_to_id
        /\ steps[j].workflow_id = steps[i].workflow_id /\ steps[j].step_order = steps[i].step_order
        /\ steps[j].due_date = steps[i].completed_at + 12
        /\ workflows[steps[i].workflow_id].escalation_timeout_hours # 12

(* no department manager on the step's ticket and no admin user *)
Unresolvable(i) ==
    /\ TicketOf(Db, steps[i].workflow_id).manager_id = None
    /\ \A u \in Users : users[u] # "admin"

(* C21: during a sweep, an overdue step for which no escalation target can  *)
(* be resolved is left pending, with no sibling step created and none of    *)
(* its fields changed, and the sweep still processes every other overdue    *)
(* step in the same run.                                                    *)
C21_SweepSkipsUnresolvable ==
    LET r == escalate_overdue_approvals(Db, users, now)
        created == StepIds(r.db) \ StepIds(Db)
    IN  \A i \in SeqRange(get_overdue_approvals(Db, now)) :
            IF Unresolvable(i)
            THEN /\ r.db.steps[i] = steps[i]
                 /\ \A j \in created : r.db.steps[j].workflow_id # steps[i].workflow_id
            ELSE /\ r.db.steps[i].status = "escalated"
                 /\ Cardinality({j \in created :
                        /\ r.db.steps[j].workflow_id = steps[i].workflow_id
                        /\ r.db.steps[j].step_order = steps[i].step_order
                        /\ r.db.steps[j].status = "pending"}) = 1

(* a sweep has escalated one overdue step and left another, whose ticket    *)
(* has no target, pending as it was                                         *)
C21_Witness ==
    \E i, k \in StepIds(Db) :
        /\ Unresolvable(i)
        /\ steps[i].status = "pending" /\ steps[i].due_date < now
        /\ steps[i].action = "none" /\ steps[i].completed_at = NoTime
        /\ steps[i].escalated_to_id = None
        /\ i < k
        /\ steps[k].status = "escalated" /\ steps[k].action = "none"
        /\ steps[k].completed_at = now

(* C22: for every step the sweep escalates, exactly one audit entry is      *)
(* recorded on the step's ticket, and it names the approver of the step     *)
(* that was overdue, whichever position that step has in its workflow.      *)
C22_SweepAuditNamesOriginalApprover ==
    LET r == escalate_overdue_approvals(Db, users, now)
        escalated == SortedSeq(Escalatable)
    IN  /\ Len(r.audit) = Len(escalated)
        /\ \A k \in DOMAIN escalated :
              /\ r.audit[k].ticket_id = workflows[steps[escalated[k]].workflow_id].ticket_id
              /\ r.audit[k].user = steps[escalated[k]].approver_id

ValidationError == "ValidationError"

C24_AutoApprovalIffThresholdTest ==
    \A ticket_id \in Tickets, workflow_type \in WorkflowType, approver_ids \in ApproverLists \ {<<>>},
       initiated_by_id \in Initiators, threshold \in Thresholds, timeout \in TimeoutChoices,
       cost \in Costs :
        LET db == [Db EXCEPT !.tickets[ticket_id].cost_estimate = cost]
            r == create_approval_workflow(db, ticket_id, workflow_type, approver_ids,
                                          initiated_by_id, threshold, timeout, now)
            created == StepIds(r.db) \ StepIds(Db)
        IN  r.err = Ok =>
                IF workflow_type = "auto_approve" /\ threshold # NoThreshold /\ cost <= threshold
                THEN \A i \in created : r.db.steps[i].status = "approved"
                ELSE \A i \in created : r.db.steps[i].status = "pending"

(* C25: after createWorkflow followed by a successful cancel of that        *)
(* workflow, the ticket's status equals the status it had immediately       *)
(* before createWorkflow, for every ticket status from which a workflow can *)
(* be created.                                                              *)
C25_CancelRestoresTicketStatus ==
    \A ticket_id \in Tickets, workflow_type \in WorkflowType, approver_ids \in ApproverLists,
       initiated_by_id \in Initiators, timeout \in TimeoutChoices, status \in TicketStatus :
        LET db == [Db EXCEPT !.tickets[ticket_id].status = status]
            created == create_approval_workflow(db, ticket_id, workflow_type, approver_ids,
                                                initiated_by_id, NoThreshold, timeout, now)
            cancelled == cancel_workflow(created.db, Len(created.db.workflows), initiated_by_id)
        IN  (created.err = Ok /\ cancelled.err = Ok)
            => cancelled.db.tickets[ticket_id].status = status

(* C26: if the audit-comment write fails during process_step,               *)
(* createWorkflow, cancel or the sweep, the operation still succeeds for    *)
(* the caller and the step, workflow and ticket transition it made is kept. *)
C26_AuditFailureIsSwallowed ==
    /\ \A S \in StepIds(Db), action \in ApprovalAction, target \in Users :
          LET r == ProcessAs(S, action, steps[S].approver_id, target)
              f == WithCommentWrite(Db, r, FALSE)
          IN  r.err = Ok => f.err = Ok /\ f.db = r.db
    /\ \A w \in WorkflowIds(Db), u \in Users :
          LET r == cancel_workflow(Db, w, u)
              f == WithCommentWrite(Db, r, FALSE)
          IN  r.err = Ok => f.err = Ok /\ f.db = r.db
    /\ \A ticket_id \in Tickets, workflow_type \in WorkflowType, approver_ids \in ApproverLists,
          initiated_by_id \in Initiators, threshold \in Thresholds, timeout \in TimeoutChoices :
          LET r == create_approval_workflow(Db, ticket_id, workflow_type, approver_ids,
                                            initiated_by_id, threshold, timeout, now)
              f == WithCommentWrite(Db, r, FALSE)
          IN  r.err = Ok => f.err = Ok /\ f.db = r.db
    /\ LET r == escalate_overdue_approvals(Db, users, now)
           f == WithCommentWrite(Db, r, FALSE)
       IN  f.err = Ok /\ f.db = r.db

(* a step of the same workflow with a lower step_order is still pending *)
EarlierPending(S) ==
    \E i \in StepsOf(Db, steps[S].workflow_id) :
        steps[i].step_order < steps[S].step_order /\ steps[i].status = "pending"

(* C27: in a sequential workflow step_order defines precedence: a step can  *)
(* be approved or rejected only when no step of the same workflow with a    *)
(* lower step_order is still pending.                                       *)
C27_SequentialOrderEnforced ==
    \A S \in StepIds(Db), action \in {"approve", "reject"} :
        (/\ workflows[steps[S].workflow_id].workflow_type = "sequential"
         /\ workflows[steps[S].workflow_id].status = "active"
         /\ steps[S].status = "pending"
         /\ EarlierPending(S))
        => LET r == ProcessAs(S, action, steps[S].approver_id, None)
           IN  r.err # Ok /\ r.db = Db

(* C28: the escalation sweep never changes a workflow that is not active:   *)
(* for a completed or cancelled workflow it escalates none of the steps and *)
(* adds no new pending step, even when the steps are past their due date.   *)
C28_SweepLeavesInactiveWorkflows ==
    LET r == escalate_overdue_approvals(Db, users, now)
    IN  \A w \in WorkflowIds(Db) :
            workflows[w].status # "active" =>
                /\ StepsOf(r.db, w) = StepsOf(Db, w)
                /\ \A i \in StepsOf(Db, w) : r.db.steps[i] = steps[i]
                /\ r.db.workflows[w] = workflows[w]

(* C29: in every reachable state each workflow has at most one pending step *)
(* per step_order value, under any sequence and interleaving of             *)
(* process_step and sweep operations.                                       *)
C29_OnePendingPerOrder ==
    \A i, j \in StepIds(Db) :
        (/\ steps[i].workflow_id = steps[j].workflow_id
         /\ steps[i].step_order = steps[j].step_order
         /\ steps[i].status = "pending"
         /\ steps[j].status = "pending")
        => i = j

(* C30: in every reachable state a cancelled workflow has no pending step,  *)
(* including when cancel is interleaved with a concurrent delegate or       *)
(* escalate action or with an escalation sweep on one of its steps.         *)
C30_CancelledHasNoPendingStep ==
    \A w \in WorkflowIds(Db) :
        workflows[w].status = "cancelled" =>
            \A i \in StepsOf(Db, w) : steps[i].status # "pending"
====
